---- MODULE Spec2Model ----
(***************************************************************************)
(* Model of the pbzx chunk codec (src/src/pbzx.rs) and of the macOS .pkg   *)
(* pipeline built on it (src/src/pkg.rs).                                   *)
(*                                                                         *)
(* A Vec<u8> / &[u8] is represented as a run-length list: a sequence of     *)
(* runs <<b, n>> (byte b repeated n >= 1 times) in which adjacent runs have  *)
(* different bytes.  The representation is canonical, so two buffers are     *)
(* equal as byte strings iff their run lists are equal, and it lets the      *)
(* model hold the multi-megabyte buffers that the program's size constants   *)
(* (1 MiB chunks, 64 MiB scratch buffer) are about.                          *)
(***************************************************************************)
EXTENDS Integers, Sequences, FiniteSets, TLC

\* ------------------------------------------------------------------------
\* Bounds of the model
\* ------------------------------------------------------------------------
MaxChunks == 2
MaxRuns == 3
MaxChunkSize == 8
MaxEntries == 2
MaxOuter == 2

\* ------------------------------------------------------------------------
\* Byte buffers (Vec<u8>, &[u8]) as canonical run-length lists
\* ------------------------------------------------------------------------
\* The operators on run lists go through a short list run by run and split
\* a long one in two, which keeps their evaluation shallow.
\* buf.len(): the sum of the run lengths
RECURSIVE BLen(_)
BLen(buf) ==
  IF buf = <<>> THEN 0
  ELSE IF Len(buf) <= 16 THEN Head(buf)[2] + BLen(Tail(buf))
  ELSE BLen(SubSeq(buf, 1, Len(buf) \div 2))
         + BLen(SubSeq(buf, Len(buf) \div 2 + 1, Len(buf)))

\* Vec::extend_from_slice: a followed by b
Cat(a, b) ==
  IF a = <<>> THEN b
  ELSE IF b = <<>> THEN a
  ELSE IF a[Len(a)][1] = b[1][1]
       THEN SubSeq(a, 1, Len(a) - 1)
              \o << <<b[1][1], a[Len(a)][2] + b[1][2]>> >>
              \o Tail(b)
       ELSE a \o b

\* n copies of byte b (vec![b; n])
Rep(b, n) == IF n = 0 THEN <<>> ELSE << <<b, n>> >>

\* a byte literal b"..." given as the sequence of its bytes
RECURSIVE Pack(_)
Pack(s) ==
  IF s = <<>> THEN <<>>
  ELSE IF Len(s) <= 16 THEN Cat(Rep(Head(s), 1), Pack(Tail(s)))
  ELSE Cat(Pack(SubSeq(s, 1, Len(s) \div 2)), Pack(SubSeq(s, Len(s) \div 2 + 1, Len(s))))

\* the bytes of a (short) buffer as a plain sequence
RECURSIVE Expand(_)
Expand(buf) ==
  IF buf = <<>> THEN <<>>
  ELSE IF Len(buf) <= 16
       THEN [i \in 1..Head(buf)[2] |-> Head(buf)[1]] \o Expand(Tail(buf))
  ELSE Expand(SubSeq(buf, 1, Len(buf) \div 2))
         \o Expand(SubSeq(buf, Len(buf) \div 2 + 1, Len(buf)))

\* &buf[..k]
RECURSIVE BTake(_, _)
BTake(buf, k) ==
  IF k = 0 \/ buf = <<>> THEN <<>>
  ELSE IF Len(buf) <= 16
       THEN IF Head(buf)[2] <= k
            THEN <<Head(buf)>> \o BTake(Tail(buf), k - Head(buf)[2])
            ELSE << <<Head(buf)[1], k>> >>
  ELSE LET front == SubSeq(buf, 1, Len(buf) \div 2)
           n == BLen(front)
       IN IF k <= n THEN BTake(front, k)
          ELSE front \o BTake(SubSeq(buf, Len(buf) \div 2 + 1, Len(buf)), k - n)

\* &buf[k..]
RECURSIVE BDrop(_, _)
BDrop(buf, k) ==
  IF k = 0 \/ buf = <<>> THEN buf
  ELSE IF Len(buf) <= 16
       THEN IF Head(buf)[2] <= k
            THEN BDrop(Tail(buf), k - Head(buf)[2])
            ELSE << <<Head(buf)[1], Head(buf)[2] - k>> >> \o Tail(buf)
  ELSE LET front == SubSeq(buf, 1, Len(buf) \div 2)
           back == SubSeq(buf, Len(buf) \div 2 + 1, Len(buf))
           n == BLen(front)
       IN IF k < n THEN BDrop(front, k) \o back ELSE BDrop(back, k - n)

\* &buf[from..to], 0-based and half-open as in Rust; from <= to <= len
Slice(buf, from, to) == BTake(BDrop(buf, from), to - from)

\* ------------------------------------------------------------------------
\* u64 / usize arithmetic.  A 64-bit word is kept as three limbs
\* a (16 bits), b (24 bits), c (24 bits): value = a*2^48 + b*2^24 + c.
\* usize is 64 bits wide, so `as usize` keeps the value.
\* ------------------------------------------------------------------------
Limb == 256 * 256 * 256

U64FromInt(n) == [a |-> 0, b |-> n \div Limb, c |-> n % Limb]

\* u64::from_be_bytes on an 8-byte slice
U64FromBytes(s) ==
  [a |-> s[1] * 256 + s[2],
   b |-> (s[3] * 256 + s[4]) * 256 + s[5],
   c |-> (s[6] * 256 + s[7]) * 256 + s[8]]

\* u64::to_be_bytes
U64ToBytes(w) ==
  << w.a \div 256, w.a % 256,
     w.b \div 65536, (w.b \div 256) % 256, w.b % 256,
     w.c \div 65536, (w.c \div 256) % 256, w.c % 256 >>

\* x + y on 64 bits: the wrapped sum and whether it overflowed
U64Add(x, y) ==
  LET c0 == x.c + y.c
      b0 == x.b + y.b + (c0 \div Limb)
      a0 == x.a + y.a + (b0 \div Limb)
  IN [sum |-> [a |-> a0 % 65536, b |-> b0 % Limb, c |-> c0 % Limb],
      overflow |-> a0 >= 65536]

U64Gt(x, y) ==
  \/ x.a > y.a
  \/ x.a = y.a /\ x.b > y.b
  \/ x.a = y.a /\ x.b = y.b /\ x.c > y.c

\* a word that is known to be a valid index (< 2^31) as an integer
U64ToInt(w) == w.b * Limb + w.c

\* ------------------------------------------------------------------------
\* lzma_rs::xz_compress / xz_decompress.  The XZ container is modelled as a
\* lossless run-length codec: a one-byte stream marker followed by one
\* 5-byte group (4-byte big-endian count, byte) per run.  It is a real
\* conversion: it lengthens short or varied input, shortens long runs, and
\* its decoder rejects malformed streams.
\* ------------------------------------------------------------------------
XZ_MARK == 253

U32ToBytes(n) ==
  << n \div 16777216, (n \div 65536) % 256, (n \div 256) % 256, n % 256 >>

RECURSIVE XzGroups(_)
XzGroups(buf) ==
  IF buf = <<>> THEN <<>>
  ELSE IF Len(buf) <= 16
       THEN Cat(Cat(Pack(U32ToBytes(Head(buf)[2])), Rep(Head(buf)[1], 1)),
                XzGroups(Tail(buf)))
  ELSE Cat(XzGroups(SubSeq(buf, 1, Len(buf) \div 2)),
           XzGroups(SubSeq(buf, Len(buf) \div 2 + 1, Len(buf))))

xz_compress(chunk) ==
  [ok |-> TRUE, val |-> Cat(Rep(XZ_MARK, 1), XzGroups(chunk))]

\* the groups of a stream body given as a plain byte sequence; "bad" when a
\* group is incomplete or has a zero or oversized count
XzCount(s, g) ==
  ((s[5 * g - 4] * 256 + s[5 * g - 3]) * 256 + s[5 * g - 2]) * 256 + s[5 * g - 1]

\* the runs that groups lo..hi stand for
RECURSIVE XzRuns(_, _, _)
XzRuns(s, lo, hi) ==
  IF lo > hi THEN <<>>
  ELSE IF lo = hi THEN Rep(s[5 * lo], XzCount(s, lo))
  ELSE Cat(XzRuns(s, lo, (lo + hi) \div 2), XzRuns(s, (lo + hi) \div 2 + 1, hi))

XzUngroup(s) ==
  IF /\ Len(s) % 5 = 0
     /\ \A g \in 1..(Len(s) \div 5) : s[5 * g - 4] < 128 /\ XzCount(s, g) # 0
  THEN [ok |-> TRUE, val |-> XzRuns(s, 1, Len(s) \div 5)]
  ELSE [ok |-> FALSE, val |-> <<>>]

xz_decompress(chunk_data) ==
  IF BLen(chunk_data) < 1 \/ BTake(chunk_data, 1) # Rep(XZ_MARK, 1)
  THEN [ok |-> FALSE, val |-> <<>>]
  ELSE XzUngroup(Expand(BDrop(chunk_data, 1)))

\* ------------------------------------------------------------------------
\* Results: Ok(value), Err(Error::InvalidArgument(message)) or a panic
\* (an abort that returns nothing to the caller)
\* ------------------------------------------------------------------------
NoResult == [kind |-> "none", variant |-> "", msg |-> "", val |-> <<>>]
Ok(v) == [kind |-> "Ok", variant |-> "", msg |-> "", val |-> v]
Err(m) == [kind |-> "Err", variant |-> "InvalidArgument", msg |-> m, val |-> <<>>]
Panic == [kind |-> "Panic", variant |-> "", msg |-> "", val |-> <<>>]

\* the messages of the codec's errors
TooShort == "Data too short to be a pbzx stream"
BadMagic == "Not a pbzx stream (missing magic header)"
TruncatedChunk == "Chunk data truncated"
CodecError == "Failed to decompress XZ chunk"

\* ------------------------------------------------------------------------
\* pbzx::decompress
\* ------------------------------------------------------------------------
PBZX_MAGIC == Pack(<<112, 98, 122, 120>>)
CHUNK_FLAG_XZ == U64FromInt(16777216)

\* the state of decompress at the head of its while loop
LoopState(off, out) == [pc |-> "loop", offset |-> off, output |-> out, result |-> NoResult]
Returned(st, r) == [pc |-> "done", offset |-> st.offset, output |-> st.output, result |-> r]

\* variant: the length check only covers the magic marker
DecompressEnter_Len4(d) ==
  LET st0 == LoopState(0, <<>>)
  IN IF BLen(d) < 4 THEN Returned(st0, Err(TooShort))
     ELSE IF Slice(d, 0, 4) # PBZX_MAGIC THEN Returned(st0, Err(BadMagic))
     ELSE LoopState(12, <<>>)

\* variant: the magic marker is not verified
DecompressEnter_NoMagic(d) ==
  IF BLen(d) < 12 THEN Returned(LoopState(0, <<>>), Err(TooShort))
  ELSE LoopState(12, <<>>)

\* variant: a default chunk size of 0 in the header is rejected
DecompressEnter_ZeroField(d) ==
  LET st0 == LoopState(0, <<>>)
  IN IF BLen(d) < 12 THEN Returned(st0, Err(TooShort))
     ELSE IF Slice(d, 0, 4) # PBZX_MAGIC THEN Returned(st0, Err(BadMagic))
     ELSE IF Expand(Slice(d, 4, 12)) = <<0, 0, 0, 0, 0, 0, 0, 0>>
     THEN Returned(st0, Err("Invalid default chunk size"))
     ELSE LoopState(12, <<>>)

\* lines 64-85: the length check, the magic check, offset = 12
DecompressEnter(d) ==
  LET st0 == LoopState(0, <<>>)
  IN IF BLen(d) < 12 THEN Returned(st0, Err(TooShort))
     ELSE IF Slice(d, 0, 4) # PBZX_MAGIC THEN Returned(st0, Err(BadMagic))
     ELSE LoopState(12, <<>>)

\* variant: each chunk's output is put in front of the output
DecompressChunk_Prepend(d, st, flags, from, to) ==
  LET chunk_data == Slice(d, from, to)
  IN IF flags = CHUNK_FLAG_XZ
     THEN LET r == xz_decompress(chunk_data)
          IN IF r.ok THEN LoopState(to, Cat(r.val, st.output))
             ELSE Returned([st EXCEPT !.offset = to], Err(CodecError))
     ELSE LoopState(to, Cat(chunk_data, st.output))

\* variant: only the low 32 bits of the flag word are compared
DecompressChunk_LowFlagBits(d, st, flags, from, to) ==
  LET chunk_data == Slice(d, from, to)
  IN IF flags.b % 256 = CHUNK_FLAG_XZ.b /\ flags.c = CHUNK_FLAG_XZ.c
     THEN LET r == xz_decompress(chunk_data)
          IN IF r.ok THEN LoopState(to, Cat(st.output, r.val))
             ELSE Returned([st EXCEPT !.offset = to], Err(CodecError))
     ELSE LoopState(to, Cat(st.output, chunk_data))

\* variant: a chunk that fails to decompress ends the stream with the output so far
DecompressChunk_KeepPartial(d, st, flags, from, to) ==
  LET chunk_data == Slice(d, from, to)
  IN IF flags = CHUNK_FLAG_XZ
     THEN LET r == xz_decompress(chunk_data)
          IN IF r.ok THEN LoopState(to, Cat(st.output, r.val))
             ELSE Returned([st EXCEPT !.offset = to], Ok(st.output))
     ELSE LoopState(to, Cat(st.output, chunk_data))

\* lines 119-129: the payload of one chunk
DecompressChunk(d, st, flags, from, to) ==
  LET chunk_data == Slice(d, from, to)
  IN IF flags = CHUNK_FLAG_XZ
     THEN LET r == xz_decompress(chunk_data)
          IN IF r.ok THEN LoopState(to, Cat(st.output, r.val))
             ELSE Returned([st EXCEPT !.offset = to], Err(CodecError))
     ELSE LoopState(to, Cat(st.output, chunk_data))

\* variant: a truncated chunk header is an error
DecompressIter_HeaderError(d, st, checks) ==
  IF ~(st.offset < BLen(d)) THEN Returned(st, Ok(st.output))
  ELSE IF st.offset + 16 > BLen(d) THEN Returned(st, Err("Invalid chunk header"))
  ELSE
    LET flags == U64FromBytes(Expand(Slice(d, st.offset, st.offset + 8)))
        compressed_size == U64FromBytes(Expand(Slice(d, st.offset + 8, st.offset + 16)))
        off == st.offset + 16
        end == U64Add(U64FromInt(off), compressed_size)
        st2 == [st EXCEPT !.offset = off]
    IN IF end.overflow /\ checks THEN Returned(st2, Panic)
       ELSE IF U64Gt(end.sum, U64FromInt(BLen(d))) THEN Returned(st2, Err(TruncatedChunk))
       ELSE IF U64Gt(U64FromInt(off), end.sum) THEN Returned(st2, Panic)
       ELSE DecompressChunk(d, st2, flags, off, U64ToInt(end.sum))

\* variant: the offset is not moved past the 16-byte chunk header
DecompressIter_HeaderNotSkipped(d, st, checks) ==
  IF ~(st.offset < BLen(d)) THEN Returned(st, Ok(st.output))
  ELSE IF st.offset + 16 > BLen(d) THEN Returned(st, Ok(st.output))
  ELSE
    LET flags == U64FromBytes(Expand(Slice(d, st.offset, st.offset + 8)))
        compressed_size == U64FromBytes(Expand(Slice(d, st.offset + 8, st.offset + 16)))
        off == st.offset
        end == U64Add(U64FromInt(off), compressed_size)
        st2 == [st EXCEPT !.offset = off]
    IN IF end.overflow /\ checks THEN Returned(st2, Panic)
       ELSE IF U64Gt(end.sum, U64FromInt(BLen(d))) THEN Returned(st2, Err(TruncatedChunk))
       ELSE IF U64Gt(U64FromInt(off), end.sum) THEN Returned(st2, Panic)
       ELSE DecompressChunk(d, st2, flags, off, U64ToInt(end.sum))

\* lines 87-130: one pass through the while loop.  checks is the build's
\* overflow-checks setting: with it `offset + compressed_size` panics on
\* overflow, without it the sum wraps and the slice data[offset..end] with
\* end < offset panics.
DecompressIter(d, st, checks) ==
  IF ~(st.offset < BLen(d)) THEN Returned(st, Ok(st.output))
  ELSE IF st.offset + 16 > BLen(d) THEN Returned(st, Ok(st.output))
  ELSE
    LET flags == U64FromBytes(Expand(Slice(d, st.offset, st.offset + 8)))
        compressed_size == U64FromBytes(Expand(Slice(d, st.offset + 8, st.offset + 16)))
        off == st.offset + 16
        end == U64Add(U64FromInt(off), compressed_size)
        st2 == [st EXCEPT !.offset = off]
    IN IF end.overflow /\ checks THEN Returned(st2, Panic)
       ELSE IF U64Gt(end.sum, U64FromInt(BLen(d))) THEN Returned(st2, Err(TruncatedChunk))
       ELSE IF U64Gt(U64FromInt(off), end.sum) THEN Returned(st2, Panic)
       ELSE DecompressChunk(d, st2, flags, off, U64ToInt(end.sum))

\* the whole call
RECURSIVE DecompressLoop(_, _, _)
DecompressLoop(d, st, checks) ==
  IF st.pc = "done" THEN st.result ELSE DecompressLoop(d, DecompressIter(d, st, checks), checks)

decompress(d, checks) == DecompressLoop(d, DecompressEnter(d), checks)

\* variant: compares as many leading bytes as there are, without the length test
is_pbzx_Prefix(d) == BTake(d, 4) = BTake(PBZX_MAGIC, BLen(BTake(d, 4)))

\* pbzx::is_pbzx
is_pbzx(d) == BLen(d) >= 4 /\ Slice(d, 0, 4) = PBZX_MAGIC

\* ------------------------------------------------------------------------
\* pbzx::compress_with_chunk_size, pbzx::compress
\* ------------------------------------------------------------------------
DEFAULT_CHUNK_SIZE == 1024 * 1024
InvalidChunkSize == "Chunk size must be greater than 0"
XzCompressFailed == "Failed to XZ-compress chunk"

\* the state of compress_with_chunk_size at the head of its for loop: pos is
\* the start of the next slice that data.chunks(chunk_size) yields
EncState(p, out) == [pc |-> "loop", pos |-> p, output |-> out, result |-> NoResult]
EncReturned(st, r) == [pc |-> "done", pos |-> st.pos, output |-> st.output, result |-> r]

\* variant: empty input returns the bare header before the chunk size is checked
CompressEnter_EmptyFirst(d, cs) ==
  IF d = <<>>
  THEN EncReturned(EncState(0, Cat(PBZX_MAGIC, Pack(U64ToBytes(U64FromInt(cs))))),
                   Ok(Cat(PBZX_MAGIC, Pack(U64ToBytes(U64FromInt(cs))))))
  ELSE IF cs = 0 THEN EncReturned(EncState(0, <<>>), Err(InvalidChunkSize))
  ELSE EncState(0, Cat(PBZX_MAGIC, Pack(U64ToBytes(U64FromInt(cs)))))

\* variant: the header field holds the input length instead of the chunk size
CompressEnter_DataLength(d, cs) ==
  IF cs = 0 THEN EncReturned(EncState(0, <<>>), Err(InvalidChunkSize))
  ELSE EncState(0, Cat(PBZX_MAGIC, Pack(U64ToBytes(U64FromInt(BLen(d))))))

\* lines 183-193: the chunk-size check and the stream header
CompressEnter(d, cs) ==
  IF cs = 0 THEN EncReturned(EncState(0, <<>>), Err(InvalidChunkSize))
  ELSE EncState(0, Cat(PBZX_MAGIC, Pack(U64ToBytes(U64FromInt(cs)))))

Min(x, y) == IF x <= y THEN x ELSE y

\* variant: a raw chunk's length field is taken from the compressed buffer
CompressIter_WrongLength(d, cs, st) ==
  IF st.pos >= BLen(d) THEN EncReturned(st, Ok(st.output))
  ELSE
    LET to == Min(st.pos + cs, BLen(d))
        chunk == Slice(d, st.pos, to)
        compressed == xz_compress(chunk)
    IN IF ~compressed.ok THEN EncReturned(st, Err(XzCompressFailed))
       ELSE IF BLen(compressed.val) < BLen(chunk)
       THEN EncState(to, Cat(Cat(Cat(st.output, Pack(U64ToBytes(CHUNK_FLAG_XZ))),
                                 Pack(U64ToBytes(U64FromInt(BLen(compressed.val))))),
                             compressed.val))
       ELSE EncState(to, Cat(Cat(Cat(st.output, Pack(U64ToBytes(U64FromInt(0)))),
                                 Pack(U64ToBytes(U64FromInt(BLen(compressed.val))))),
                             chunk))

\* variant: every slice but the first starts one byte early (slices overlap)
CompressIter_Overlap(d, cs, st) ==
  IF st.pos >= BLen(d) THEN EncReturned(st, Ok(st.output))
  ELSE
    LET from == IF st.pos > 0 THEN st.pos - 1 ELSE 0
        to == Min(st.pos + cs, BLen(d))
        chunk == Slice(d, from, to)
        compressed == xz_compress(chunk)
    IN IF ~compressed.ok THEN EncReturned(st, Err(XzCompressFailed))
       ELSE IF BLen(compressed.val) < BLen(chunk)
       THEN EncState(to, Cat(Cat(Cat(st.output, Pack(U64ToBytes(CHUNK_FLAG_XZ))),
                                 Pack(U64ToBytes(U64FromInt(BLen(compressed.val))))),
                             compressed.val))
       ELSE EncState(to, Cat(Cat(Cat(st.output, Pack(U64ToBytes(U64FromInt(0)))),
                                 Pack(U64ToBytes(U64FromInt(BLen(chunk))))),
                             chunk))

\* variant: the compressed form is used whenever it is not longer
CompressIter_NotLonger(d, cs, st) ==
  IF st.pos >= BLen(d) THEN EncReturned(st, Ok(st.output))
  ELSE
    LET to == Min(st.pos + cs, BLen(d))
        chunk == Slice(d, st.pos, to)
        compressed == xz_compress(chunk)
    IN IF ~compressed.ok THEN EncReturned(st, Err(XzCompressFailed))
       ELSE IF BLen(compressed.val) <= BLen(chunk)
       THEN EncState(to, Cat(Cat(Cat(st.output, Pack(U64ToBytes(CHUNK_FLAG_XZ))),
                                 Pack(U64ToBytes(U64FromInt(BLen(compressed.val))))),
                             compressed.val))
       ELSE EncState(to, Cat(Cat(Cat(st.output, Pack(U64ToBytes(U64FromInt(0)))),
                                 Pack(U64ToBytes(U64FromInt(BLen(chunk))))),
                             chunk))

\* variant: a raw payload of odd length is padded with a zero byte
CompressIter_Padded(d, cs, st) ==
  IF st.pos >= BLen(d) THEN EncReturned(st, Ok(st.output))
  ELSE
    LET to == Min(st.pos + cs, BLen(d))
        chunk == Slice(d, st.pos, to)
        compressed == xz_compress(chunk)
    IN IF ~compressed.ok THEN EncReturned(st, Err(XzCompressFailed))
       ELSE IF BLen(compressed.val) < BLen(chunk)
       THEN EncState(to, Cat(Cat(Cat(st.output, Pack(U64ToBytes(CHUNK_FLAG_XZ))),
                                 Pack(U64ToBytes(U64FromInt(BLen(compressed.val))))),
                             compressed.val))
       ELSE EncState(to, Cat(Cat(Cat(Cat(st.output, Pack(U64ToBytes(U64FromInt(0)))),
                                     Pack(U64ToBytes(U64FromInt(BLen(chunk))))),
                                 chunk),
                             Rep(0, BLen(chunk) % 2)))

\* lines 196-214: one pass through the for loop over data.chunks(chunk_size),
\* or the return when the slices are exhausted
CompressIter(d, cs, st) ==
  IF st.pos >= BLen(d) THEN EncReturned(st, Ok(st.output))
  ELSE
    LET to == Min(st.pos + cs, BLen(d))
        chunk == Slice(d, st.pos, to)
        compressed == xz_compress(chunk)
    IN IF ~compressed.ok THEN EncReturned(st, Err(XzCompressFailed))
       ELSE IF BLen(compressed.val) < BLen(chunk)
       THEN EncState(to, Cat(Cat(Cat(st.output, Pack(U64ToBytes(CHUNK_FLAG_XZ))),
                                 Pack(U64ToBytes(U64FromInt(BLen(compressed.val))))),
                             compressed.val))
       ELSE EncState(to, Cat(Cat(Cat(st.output, Pack(U64ToBytes(U64FromInt(0)))),
                                 Pack(U64ToBytes(U64FromInt(BLen(chunk))))),
                             chunk))

RECURSIVE CompressLoop(_, _, _)
CompressLoop(d, cs, st) ==
  IF st.pc = "done" THEN st.result ELSE CompressLoop(d, cs, CompressIter(d, cs, st))

compress_with_chunk_size(d, cs) == CompressLoop(d, cs, CompressEnter(d, cs))

\* variant: a default chunk size of 64 KiB
compress_SmallChunks(d) == compress_with_chunk_size(d, 64 * 1024)

compress(d) == compress_with_chunk_size(d, DEFAULT_CHUNK_SIZE)

\* ------------------------------------------------------------------------
\* Inputs of compress_with_chunk_size: buffers of up to MaxRuns runs
\* ------------------------------------------------------------------------
RunBytes == {7, 253}
RunLens == {1, 7, 9}
RECURSIVE RunsToBuffer(_)
RunsToBuffer(rs) ==
  IF rs = <<>> THEN <<>> ELSE Cat(Rep(Head(rs)[1], Head(rs)[2]), RunsToBuffer(Tail(rs)))
Buffers == {RunsToBuffer(rs) : rs \in UNION {[1..n -> RunBytes \X RunLens] : n \in 0..MaxRuns}}
ChunkSizes == (0..MaxChunkSize) \cup {DEFAULT_CHUNK_SIZE}

\* ------------------------------------------------------------------------
\* The container collaborator (ReadArchive / WriteArchive over libarchive).
\* The inner container (cpio) is a byte format: per entry a header (type,
\* permission, path, body length) followed by the body, closed by a trailer.
\* The outer container (xar) is kept as its list of entries.
\* ------------------------------------------------------------------------
ErrArchive(m) == [kind |-> "Err", variant |-> "Archive", msg |-> m, val |-> <<>>]
BufferExhausted == "Buffer exhausted"
BadContainer == "Unrecognized archive format"
OpenFailed == "Failed to open"

FileTypeCode(t) ==
  IF t = "RegularFile" THEN 1 ELSE IF t = "Directory" THEN 2 ELSE 3
CodeFileType(c) ==
  IF c = 1 THEN "RegularFile" ELSE IF c = 2 THEN "Directory" ELSE "SymbolicLink"

\* WriteArchive::open_memory(buffer, used): writes go to a buffer of fixed size
MemArchive(capacity) == [buf |-> <<>>, cap |-> capacity, failed |-> FALSE]

MemWrite(w, bytes) ==
  IF w.failed \/ BLen(w.buf) + BLen(bytes) > w.cap
  THEN [w EXCEPT !.failed = TRUE]
  ELSE [w EXCEPT !.buf = Cat(@, bytes)]

\* the body that an entry's header announces: the link target for a symlink
CpioBodyLen(e) == IF e.filetype = "SymbolicLink" THEN Len(e.symlink) ELSE e.size

\* WriteArchive::write_header on the inner container
CpioWriteHeader(w, e) ==
  MemWrite(w, Cat(Cat(Cat(Pack(<<FileTypeCode(e.filetype), e.perm \div 256, e.perm % 256,
                                 Len(e.pathname)>>),
                          Pack(e.pathname)),
                      Pack(U64ToBytes(U64FromInt(CpioBodyLen(e))))),
                  Pack(e.symlink)))

\* WriteArchive::write_data on the inner container
CpioWriteData(w, bytes) == MemWrite(w, bytes)

\* WriteArchive::finish on the inner container: the trailer
CpioFinish(w) == MemWrite(w, Pack(<<0>>))

\* ReadArchive::next_entry on the inner container, with the cursor at pos
CpioReadHeader(buf, pos) ==
  LET len == BLen(buf)
      bad == [status |-> "error", entry |-> <<>>, from |-> pos, to |-> pos]
  IN IF pos >= len THEN bad
     ELSE LET t == Expand(Slice(buf, pos, pos + 1))[1]
          IN IF t = 0 THEN [status |-> "eof", entry |-> <<>>, from |-> pos, to |-> pos]
             ELSE IF t > 3 \/ pos + 4 > len THEN bad
             ELSE
               LET h == Expand(Slice(buf, pos, pos + 4))
                   n == h[4]
               IN IF pos + 4 + n + 8 > len THEN bad
                  ELSE
                    LET name == Expand(Slice(buf, pos + 4, pos + 4 + n))
                        w == U64FromBytes(Expand(Slice(buf, pos + 4 + n, pos + 12 + n)))
                        from == pos + 12 + n
                    IN IF w.a # 0 \/ w.b >= 64 \/ from + U64ToInt(w) > len THEN bad
                       ELSE
                         LET to == from + U64ToInt(w)
                             link == CodeFileType(t) = "SymbolicLink"
                         IN [status |-> "entry",
                             entry |-> [pathname |-> name, filetype |-> CodeFileType(t),
                                        perm |-> h[2] * 256 + h[3],
                                        size |-> IF link THEN 0 ELSE to - from,
                                        symlink |-> IF link THEN Expand(Slice(buf, from, to))
                                                    ELSE <<>>],
                             from |-> IF link THEN to ELSE from, to |-> to]

\* ------------------------------------------------------------------------
\* pkg.rs: PkgWriter
\* ------------------------------------------------------------------------
NullByteInPath == "Path contains null byte"
NullByteInTarget == "Symlink target contains null byte"
MissingPayload == "No Payload entry found in .pkg file"
PayloadName == <<80, 97, 121, 108, 111, 97, 100>>
CPIO_BUFFER_SIZE == 64 * 1024 * 1024

\* EntryMut::set_pathname: CString::new rejects an interior NUL byte
PathnameOk(path) == \A i \in 1..Len(path) : path[i] # 0

\* EntryMut as built by add_file / add_file_with_perm / add_directory
PkgEntry(path, type, bytes, perm, now) ==
  [entry |-> [pathname |-> path, filetype |-> type, size |-> BLen(bytes),
              perm |-> perm, mtime |-> now, symlink |-> <<>>],
   data |-> bytes]

\* lines 350-355: the loop of build_cpio from entry i on
RECURSIVE BuildCpioLoop(_, _, _)
BuildCpioLoop(es, i, w) ==
  IF i > Len(es) THEN w
  ELSE LET w1 == CpioWriteHeader(w, es[i].entry)
           w2 == IF es[i].data # <<>> THEN CpioWriteData(w1, es[i].data) ELSE w1
       IN IF w1.failed THEN w1
          ELSE IF w2.failed THEN w2
          ELSE BuildCpioLoop(es, i + 1, w2)

\* variant: the loop starts at the second entry
build_cpio_SkipFirst(es) ==
  LET w == BuildCpioLoop(es, 2, MemArchive(CPIO_BUFFER_SIZE))
      f == IF w.failed THEN w ELSE CpioFinish(w)
  IN IF f.failed THEN ErrArchive(BufferExhausted) ELSE Ok(f.buf)

\* PkgWriter::build_cpio
build_cpio(es) ==
  LET w == BuildCpioLoop(es, 1, MemArchive(CPIO_BUFFER_SIZE))
      f == IF w.failed THEN w ELSE CpioFinish(w)
  IN IF f.failed THEN ErrArchive(BufferExhausted) ELSE Ok(f.buf)

\* PkgWriter::build_pbzx_payload
build_pbzx_payload(es) ==
  LET cpio_data == build_cpio(es)
  IN IF cpio_data.kind # "Ok" THEN cpio_data ELSE compress(cpio_data.val)

\* PkgWriter::write_xar: the outer container written to the file
XarWithPayload(payload, now) ==
  [finalized |-> TRUE,
   entries |-> << [pathname |-> PayloadName, filetype |-> "RegularFile",
                   size |-> BLen(payload), perm |-> 420, mtime |-> now,
                   body |-> payload] >>]

\* the number of bytes the outer container takes once written out
RECURSIVE XarEntriesLen(_, _)
XarEntriesLen(x, i) ==
  IF i > Len(x.entries) THEN 0
  ELSE 16 + Len(x.entries[i].pathname) + BLen(x.entries[i].body) + XarEntriesLen(x, i + 1)

XarSerializedLen(x) == 28 + XarEntriesLen(x, 1)

\* PkgWriter::build_xar_bytes: the outer container written to a buffer of
\* payload.len() + 4096 bytes
build_xar_bytes(payload, now) ==
  LET x == XarWithPayload(payload, now)
      w == MemWrite(MemArchive(BLen(payload) + 4096), Rep(0, XarSerializedLen(x)))
  IN IF w.failed THEN ErrArchive(BufferExhausted) ELSE Ok(x)

\* ------------------------------------------------------------------------
\* pkg.rs: PkgReader
\* ------------------------------------------------------------------------
\* variant: any name that ends in "Payload" matches
IsPayloadName_AnySuffix(name) ==
  /\ Len(name) >= Len(PayloadName)
  /\ SubSeq(name, Len(name) - Len(PayloadName) + 1, Len(name)) = PayloadName

\* name == "Payload" || name.ends_with("/Payload")
IsPayloadName(name) ==
  \/ name = PayloadName
  \/ /\ Len(name) > Len(PayloadName)
     /\ SubSeq(name, Len(name) - Len(PayloadName), Len(name)) = <<47>> \o PayloadName

\* lines 155-164: the search of extract_payload from outer entry i on
RECURSIVE ExtractPayloadFrom(_, _)
ExtractPayloadFrom(xar, i) ==
  IF i > Len(xar.entries) THEN Err(MissingPayload)
  ELSE IF IsPayloadName(xar.entries[i].pathname) THEN Ok(xar.entries[i].body)
  ELSE ExtractPayloadFrom(xar, i + 1)

NoFile == [finalized |-> FALSE, entries |-> <<>>]

\* PkgReader::extract_payload
extract_payload(f) ==
  IF ~f.finalized THEN ErrArchive(OpenFailed) ELSE ExtractPayloadFrom(f, 1)

NoReader == [open |-> FALSE, cpio_data |-> <<>>, pos |-> 0, from |-> 0, to |-> 0, eof |-> FALSE]

\* opening the inner container fails on bytes that are not of its format:
\* they must begin with an entry header or with the trailer
CpioRecognized(buf) == BLen(buf) >= 1 /\ Expand(BTake(buf, 1))[1] \in 0..3

\* PkgReader::from_cpio_data: the inner archive is opened on cpio_data; the
\* reader owns cpio_data, the inner archive is positioned at its start
from_cpio_data(cpio_data) ==
  IF ~CpioRecognized(cpio_data) THEN ErrArchive(BadContainer)
  ELSE Ok([open |-> TRUE, cpio_data |-> cpio_data, pos |-> 0, from |-> 0, to |-> 0,
           eof |-> FALSE])

\* variant: bytes that do not start with the magic are taken as the inner
\* container itself
from_pbzx_Sniffing(d, checks) ==
  IF ~is_pbzx(d) THEN from_cpio_data(d)
  ELSE LET cpio_data == decompress(d, checks)
       IN IF cpio_data.kind # "Ok" THEN cpio_data ELSE from_cpio_data(cpio_data.val)

\* PkgReader::from_pbzx
from_pbzx(d, checks) ==
  LET cpio_data == decompress(d, checks)
  IN IF cpio_data.kind # "Ok" THEN cpio_data ELSE from_cpio_data(cpio_data.val)

\* PkgReader::from_cpio
from_cpio(cpio_data) == from_cpio_data(cpio_data)

\* variant: a payload that does not decode is handed to the inner container
\* as it is
PkgReaderOpen_Lenient(f, checks) ==
  LET payload_data == extract_payload(f)
  IN IF payload_data.kind # "Ok" THEN payload_data
     ELSE LET cpio_data == decompress(payload_data.val, checks)
          IN IF cpio_data.kind # "Ok" THEN from_cpio_data(payload_data.val)
             ELSE from_cpio_data(cpio_data.val)

\* PkgReader::open
PkgReaderOpen(f, checks) ==
  LET payload_data == extract_payload(f)
  IN IF payload_data.kind # "Ok" THEN payload_data
     ELSE LET cpio_data == decompress(payload_data.val, checks)
          IN IF cpio_data.kind # "Ok" THEN cpio_data
             ELSE from_cpio_data(cpio_data.val)

\* ------------------------------------------------------------------------
\* Inputs of decompress: a header, up to MaxChunks chunk records and trailing
\* bytes, or a prefix of a header
\* ------------------------------------------------------------------------
NotMagic == Pack(<<110, 111, 116, 112>>)
HeaderChunkSize == U64FromInt(65536)
FlagOther == [a |-> 1, b |-> 1, c |-> 0]
MaxWord == [a |-> 65535, b |-> Limb - 1, c |-> Limb - 1]

\* chunk payloads: plain text, a well-formed XZ stream (of frag), a malformed one
RawBody == [bytes |-> Pack(<<65, 66>>), frag |-> <<>>, valid |-> FALSE]
XzBody == [bytes |-> Pack(<<253, 0, 0, 0, 7, 7>>), frag |-> Rep(7, 7), valid |-> TRUE]
BadXzBody == [bytes |-> Pack(<<253, 0, 0>>), frag |-> <<>>, valid |-> FALSE]
Bodies == {RawBody, XzBody, BadXzBody}
Flags == {U64FromInt(0), CHUNK_FLAG_XZ, FlagOther}
Decls == {"exact", "plus1", "max"}
TrailLens == {0, 1, 15}

ChunkKinds == [flags : Flags, body : Bodies, decl : Decls]

Declared(k) ==
  IF k.decl = "exact" THEN U64FromInt(BLen(k.body.bytes))
  ELSE IF k.decl = "plus1" THEN U64FromInt(BLen(k.body.bytes) + 1)
  ELSE MaxWord

ChunkBytes(k) ==
  Cat(Cat(Pack(U64ToBytes(k.flags)), Pack(U64ToBytes(Declared(k)))), k.body.bytes)

RECURSIVE ChunksBytes(_)
ChunksBytes(ks) == IF ks = <<>> THEN <<>> ELSE Cat(ChunkBytes(Head(ks)), ChunksBytes(Tail(ks)))

HeaderBytes(magic_ok) ==
  Cat(IF magic_ok THEN PBZX_MAGIC ELSE NotMagic, Pack(U64ToBytes(HeaderChunkSize)))

Plans ==
  [magic_ok : BOOLEAN, keep : {12}, chunks : UNION {[1..n -> ChunkKinds] : n \in 0..MaxChunks},
   trail : TrailLens]
  \cup [magic_ok : BOOLEAN, keep : 0..11, chunks : {<<>>}, trail : {0}]

PlanBytes(p) ==
  Cat(Cat(BTake(HeaderBytes(p.magic_ok), p.keep), ChunksBytes(p.chunks)), Rep(170, p.trail))

\* ------------------------------------------------------------------------
\* Inputs of the PkgReader entry points: inner containers, payloads, and
\* packages of up to MaxOuter outer entries not written by PkgWriter
\* ------------------------------------------------------------------------
SampleFile == PkgEntry(<<97>>, "RegularFile", Pack(<<104, 105>>), 420, 1)
SampleDir == PkgEntry(<<100>>, "Directory", <<>>, 493, 1)
CpioA == build_cpio(<<SampleFile>>).val
CpioB == build_cpio(<<SampleDir, SampleFile>>).val
NotCpio == Pack(<<9, 9>>)
CpioInputs == {CpioA, CpioB, NotCpio, <<>>}

TruncatedStream ==
  Cat(HeaderBytes(TRUE), ChunkBytes([flags |-> U64FromInt(0), body |-> RawBody, decl |-> "plus1"]))
BadXzStream ==
  Cat(HeaderBytes(TRUE), ChunkBytes([flags |-> CHUNK_FLAG_XZ, body |-> BadXzBody, decl |-> "exact"]))
HugeLengthStream ==
  Cat(HeaderBytes(TRUE), ChunkBytes([flags |-> U64FromInt(0), body |-> RawBody, decl |-> "max"]))
PbzxInputs ==
  {compress(CpioA).val, compress(CpioB).val, compress(NotCpio).val, <<>>,
   HeaderBytes(FALSE), TruncatedStream, BadXzStream, HugeLengthStream}

OuterNames == {PayloadName, <<120, 47>> \o PayloadName, <<88>> \o PayloadName}
\* payloads of outer entries: two chunk streams, and an inner container that
\* was stored without the chunk-stream encoding
OuterBodies == {compress(CpioA).val, compress(CpioB).val, CpioA}
OuterEntries ==
  {[pathname |-> n, filetype |-> "RegularFile", size |-> BLen(b), perm |-> 420,
    mtime |-> 1, body |-> b] : n \in OuterNames, b \in OuterBodies}
Packages ==
  {[finalized |-> TRUE, entries |-> es] :
     es \in UNION {[1..n -> OuterEntries] : n \in 0..MaxOuter}} \cup {NoFile}

\* ------------------------------------------------------------------------
\* State
\* ------------------------------------------------------------------------
VARIABLES
  plan,             \* how the input of decompress was put together
  data,             \* decompress: the input slice
  dec,              \* decompress: pc, offset, output and the returned result
  overflow_checks,  \* whether the build traps integer overflow
  c_data,           \* compress_with_chunk_size: the input slice
  chunk_size,       \* compress_with_chunk_size: the chunk size
  enc,              \* compress_with_chunk_size: pc, position, output and result
  entries,          \* PkgWriter.entries
  file,             \* the outer container stored at the package path
  attempted,        \* the entries held when write was last called
  reader,           \* the PkgReader: _cpio_data and the cursor of inner
  yielded,          \* the entries that next_entry has returned, with the data read
  last,             \* the last PkgWriter / PkgReader call and its result
  call,             \* the PkgReader constructor call: phase, entry point, argument
  mem               \* what happened, in order, to the latest decoded buffer and its view

decVars == <<plan, data, dec, overflow_checks>>
encVars == <<c_data, chunk_size, enc>>
pkgVars == <<entries, file, attempted, reader, yielded, last, call, mem>>
vars == <<plan, data, dec, overflow_checks, c_data, chunk_size, enc,
          entries, file, attempted, reader, yielded, last, call, mem>>

Idle == [pc |-> "idle", offset |-> 0, output |-> <<>>, result |-> NoResult]
EncIdle == [pc |-> "idle", pos |-> 0, output |-> <<>>, result |-> NoResult]
NoPlan == [magic_ok |-> TRUE, keep |-> 12, chunks |-> <<>>, trail |-> 0]
NoCall == [op |-> "none", result |-> NoResult]
NoCtor == [phase |-> "Closed", via |-> "none", arg |-> <<>>]
PkgIdle ==
  /\ entries = <<>> /\ file = NoFile /\ attempted = <<>>
  /\ reader = NoReader /\ yielded = <<>> /\ last = NoCall /\ call = NoCtor
  /\ mem = <<>>

\* --- decompress on its own ------------------------------------------------
InitDecode ==
  /\ plan \in Plans
  /\ data = PlanBytes(plan)
  /\ dec = Idle
  /\ overflow_checks \in BOOLEAN
  /\ c_data = <<>> /\ chunk_size = 0 /\ enc = EncIdle
  /\ PkgIdle

\* decompress is called on data
Decompress ==
  /\ dec.pc = "idle"
  /\ enc.pc = "idle"
  /\ dec' = DecompressEnter(data)
  /\ UNCHANGED <<plan, data, overflow_checks, encVars, pkgVars>>

\* one iteration of the while loop
DecompressStep ==
  /\ dec.pc = "loop"
  /\ dec' = DecompressIter(data, dec, overflow_checks)
  /\ UNCHANGED <<plan, data, overflow_checks, encVars, pkgVars>>

\* is_pbzx is called on data, before any decompress
IsPbzx ==
  /\ dec.pc = "idle"
  /\ enc.pc = "idle"
  /\ last.op # "is_pbzx"
  /\ last' = [op |-> "is_pbzx", result |-> Ok(is_pbzx(data))]
  /\ UNCHANGED <<mem, decVars, encVars, entries, file, attempted, reader, yielded, call>>

NextDecode == Decompress \/ DecompressStep \/ IsPbzx

SpecDecode == InitDecode /\ [][NextDecode]_vars

\* --- compress_with_chunk_size, then decompress of its output ---------------
InitCodec ==
  /\ plan = NoPlan
  /\ data = <<>>
  /\ dec = Idle
  /\ overflow_checks \in BOOLEAN
  /\ c_data \in Buffers
  /\ chunk_size \in ChunkSizes
  /\ enc = EncIdle
  /\ PkgIdle

\* compress_with_chunk_size is called on c_data
Compress ==
  /\ enc.pc = "idle"
  /\ enc' = CompressEnter(c_data, chunk_size)
  /\ UNCHANGED <<decVars, c_data, chunk_size, pkgVars>>

\* one iteration of the for loop, or the return after the last slice
CompressStep ==
  /\ enc.pc = "loop"
  /\ enc' = CompressIter(c_data, chunk_size, enc)
  /\ UNCHANGED <<decVars, c_data, chunk_size, pkgVars>>

\* decompress is called on the stream that compress_with_chunk_size returned
DecompressEncoded ==
  /\ enc.pc = "done" /\ enc.result.kind = "Ok"
  /\ dec.pc = "idle"
  /\ data' = enc.result.val
  /\ dec' = DecompressEnter(enc.result.val)
  /\ UNCHANGED <<plan, overflow_checks, encVars, pkgVars>>

NextCodec == Compress \/ CompressStep \/ DecompressEncoded \/ DecompressStep

SpecCodec == InitCodec /\ [][NextCodec]_vars

\* --- decompress on streams that differ in the header's chunk-size field -----
FieldValues == {U64FromInt(0), U64FromInt(1), HeaderChunkSize, MaxWord}
FieldChunkKinds == [flags : {U64FromInt(0), CHUNK_FLAG_XZ}, body : Bodies, decl : Decls]
FieldPlans ==
  [magic_ok : {TRUE}, keep : {12},
   chunks : UNION {[1..n -> FieldChunkKinds] : n \in 0..MaxChunks}, trail : {0}]

\* buf with bytes 4..12 replaced by the big-endian form of f
WithField(buf, f) == Cat(Cat(BTake(buf, 4), Pack(U64ToBytes(f))), BDrop(buf, 12))

InitHeader ==
  /\ plan \in FieldPlans
  /\ \E f \in FieldValues : data = WithField(PlanBytes(plan), f)
  /\ dec = Idle
  /\ overflow_checks \in BOOLEAN
  /\ c_data = <<>> /\ chunk_size = 0 /\ enc = EncIdle
  /\ PkgIdle

SpecHeader == InitHeader /\ [][NextDecode]_vars

\* --- PkgWriter and PkgReader ------------------------------------------------
PathSet == {<<97>>, <<98, 47, 99>>, <<97, 0>>}
FileData == {<<>>, Cat(Pack(<<104, 105>>), Rep(7, DEFAULT_CHUNK_SIZE)), Rep(0, CPIO_BUFFER_SIZE)}
PermSet == {493}
PermFileData == {Cat(Pack(<<104, 105>>), Rep(7, DEFAULT_CHUNK_SIZE))}
Targets == {<<116, 111, 111, 108>>, <<116, 0>>}
Times == {1}

InitPkg ==
  /\ plan = NoPlan /\ data = <<>> /\ dec = Idle
  /\ overflow_checks \in BOOLEAN
  /\ c_data = <<>> /\ chunk_size = 0 /\ enc = EncIdle
  /\ PkgIdle

\* the push at the end of add_file / add_file_with_perm / add_directory, or
\* the error of set_pathname
AddEntry(op, path, type, bytes, perm, now) ==
  /\ Len(entries) < MaxEntries
  /\ call.phase = "Closed"
  /\ IF PathnameOk(path)
     THEN /\ entries' = Append(entries, PkgEntry(path, type, bytes, perm, now))
          /\ last' = [op |-> op, result |-> Ok(<<>>)]
     ELSE /\ entries' = entries
          /\ last' = [op |-> op, result |-> Err(NullByteInPath)]
  /\ UNCHANGED <<mem, decVars, encVars, file, attempted, reader, yielded, call>>

\* PkgWriter::add_file
AddFile ==
  \E path \in PathSet, bytes \in FileData, now \in Times :
    AddEntry("add_file", path, "RegularFile", bytes, 420, now)

\* PkgWriter::add_file_with_perm
AddFileWithPerm ==
  \E path \in PathSet, bytes \in PermFileData, perm \in PermSet, now \in Times :
    AddEntry("add_file_with_perm", path, "RegularFile", bytes, perm, now)

\* variant: a directory gets the permission bits of a file
AddDirectory_FilePerm ==
  \E path \in PathSet, now \in Times :
    AddEntry("add_directory", path, "Directory", <<>>, 420, now)

\* PkgWriter::add_directory
AddDirectory ==
  \E path \in PathSet, now \in Times :
    AddEntry("add_directory", path, "Directory", <<>>, 493, now)

\* variant: the target is stored as the entry's data, not as its link target
PkgSymlink_AsData(path, target, now) ==
  [entry |-> [pathname |-> path, filetype |-> "SymbolicLink", size |-> 0,
              perm |-> 511, mtime |-> now, symlink |-> <<>>],
   data |-> Pack(target)]

\* EntryMut as built by add_symlink
PkgSymlink(path, target, now) ==
  [entry |-> [pathname |-> path, filetype |-> "SymbolicLink", size |-> 0,
              perm |-> 511, mtime |-> now, symlink |-> target],
   data |-> <<>>]

\* PkgWriter::add_symlink: set_pathname and set_symlink reject a NUL byte
AddSymlink ==
  \E path \in PathSet, target \in Targets, now \in Times :
    /\ Len(entries) < MaxEntries
    /\ call.phase = "Closed"
    /\ IF ~PathnameOk(path)
       THEN /\ entries' = entries
            /\ last' = [op |-> "add_symlink", result |-> Err(NullByteInPath)]
       ELSE IF ~PathnameOk(target)
       THEN /\ entries' = entries
            /\ last' = [op |-> "add_symlink", result |-> Err(NullByteInTarget)]
       ELSE /\ entries' = Append(entries, PkgSymlink(path, target, now))
            /\ last' = [op |-> "add_symlink", result |-> Ok(<<>>)]
    /\ UNCHANGED <<mem, decVars, encVars, file, attempted, reader, yielded, call>>

\* variant: the destination file is created before the payload is built
Write_CreateFirst ==
  \E now \in Times :
    LET pbzx_payload == build_pbzx_payload(entries)
    IN /\ call.phase = "Closed"
       /\ attempted' = entries
       /\ IF pbzx_payload.kind = "Ok"
          THEN /\ file' = XarWithPayload(pbzx_payload.val, now)
               /\ last' = [op |-> "write", result |-> Ok(<<>>)]
          ELSE /\ file' = NoFile
               /\ last' = [op |-> "write", result |-> pbzx_payload]
       /\ UNCHANGED <<mem, decVars, encVars, entries, reader, yielded, call>>

\* PkgWriter::write
Write ==
  \E now \in Times :
    LET pbzx_payload == build_pbzx_payload(entries)
    IN /\ call.phase = "Closed"
       /\ attempted' = entries
       /\ IF pbzx_payload.kind = "Ok"
          THEN /\ file' = XarWithPayload(pbzx_payload.val, now)
               /\ last' = [op |-> "write", result |-> Ok(<<>>)]
          ELSE /\ file' = file
               /\ last' = [op |-> "write", result |-> pbzx_payload]
       /\ UNCHANGED <<mem, decVars, encVars, entries, reader, yielded, call>>

\* PkgWriter::write_to_vec
WriteToVec ==
  \E now \in Times :
    LET pbzx_payload == build_pbzx_payload(entries)
    IN /\ call.phase = "Closed"
       /\ attempted' = entries
       /\ last' = [op |-> "write_to_vec",
                   result |-> IF pbzx_payload.kind = "Ok"
                              THEN build_xar_bytes(pbzx_payload.val, now)
                              ELSE pbzx_payload]
       /\ UNCHANGED <<mem, decVars, encVars, entries, file, reader, yielded, call>>

\* PkgReader::open is entered: no reader exists until it returns
OpenCall ==
  /\ call.phase = "Closed"
  /\ call' = [phase |-> "LocatingPayload", via |-> "open", arg |-> <<>>]
  /\ UNCHANGED <<mem, decVars, encVars, entries, file, attempted, reader, yielded, last>>

\* the buffer that a constructor hands to from_cpio_data, if it gets that far
DecodedFor(via, arg, f, checks) ==
  IF via = "from_cpio" THEN Ok(arg)
  ELSE IF via = "from_pbzx" THEN decompress(arg, checks)
  ELSE LET payload_data == extract_payload(f)
       IN IF payload_data.kind # "Ok" THEN payload_data
          ELSE decompress(payload_data.val, checks)

\* from_cpio_data in the order of its statements: the Vec exists on entry, the
\* inner archive is created and opened on the Vec's heap block; on success the
\* Vec is moved into the PkgReader (its heap block stays where it is), on
\* failure the locals go in reverse order of declaration, the parameter last
FromCpioDataEvents(cpio_data) ==
  IF CpioRecognized(cpio_data)
  THEN <<"buf_alloc", "view_new", "view_open", "buf_move">>
  ELSE <<"buf_alloc", "view_new", "view_free", "buf_free">>

CtorEvents(via, arg, f, checks) ==
  LET cpio_data == DecodedFor(via, arg, f, checks)
  IN IF cpio_data.kind = "Ok" THEN FromCpioDataEvents(cpio_data.val) ELSE <<>>

\* variant: the fields are dropped before the inner archive
DropEvents_BufferFirst == <<"buf_free", "view_free">>

\* Drop for PkgReader: the body drops the boxed inner archive, then the
\* compiler drops the fields
DropEvents == <<"view_free", "buf_free">>

\* PkgReader::open returns
Open ==
  /\ call.phase = "LocatingPayload"
  /\ mem' = CtorEvents("open", <<>>, file, overflow_checks)
  /\ LET r == PkgReaderOpen(file, overflow_checks)
     IN IF r.kind = "Ok"
        THEN /\ reader' = r.val
             /\ call' = [call EXCEPT !.phase = "Streaming"]
             /\ last' = [op |-> "open", result |-> Ok(<<>>)]
        ELSE /\ reader' = reader
             /\ call' = NoCtor
             /\ last' = [op |-> "open", result |-> r]
  /\ yielded' = <<>>
  /\ UNCHANGED <<decVars, encVars, entries, file, attempted>>

\* PkgReader::from_pbzx on the bytes p
FromPbzx(p) ==
  /\ call.phase = "Closed"
  /\ mem' = CtorEvents("from_pbzx", p, file, overflow_checks)
  /\ LET r == from_pbzx(p, overflow_checks)
     IN IF r.kind = "Ok"
        THEN /\ reader' = r.val
             /\ call' = [phase |-> "Streaming", via |-> "from_pbzx", arg |-> p]
             /\ last' = [op |-> "from_pbzx", result |-> Ok(<<>>)]
        ELSE /\ reader' = reader
             /\ call' = [phase |-> "Closed", via |-> "from_pbzx", arg |-> p]
             /\ last' = [op |-> "from_pbzx", result |-> r]
  /\ yielded' = <<>>
  /\ UNCHANGED <<decVars, encVars, entries, file, attempted>>

\* PkgReader::from_cpio on the bytes c
FromCpio(c) ==
  /\ call.phase = "Closed"
  /\ mem' = CtorEvents("from_cpio", c, file, overflow_checks)
  /\ LET r == from_cpio(c)
     IN IF r.kind = "Ok"
        THEN /\ reader' = r.val
             /\ call' = [phase |-> "Streaming", via |-> "from_cpio", arg |-> c]
             /\ last' = [op |-> "from_cpio", result |-> Ok(<<>>)]
        ELSE /\ reader' = reader
             /\ call' = [phase |-> "Closed", via |-> "from_cpio", arg |-> c]
             /\ last' = [op |-> "from_cpio", result |-> r]
  /\ yielded' = <<>>
  /\ UNCHANGED <<decVars, encVars, entries, file, attempted>>

\* PkgReader::next_entry
NextEntry ==
  /\ reader.open
  /\ LET h == CpioReadHeader(reader.cpio_data, reader.pos)
     IN IF h.status = "entry"
        THEN /\ reader' = [reader EXCEPT !.pos = h.to, !.from = h.from, !.to = h.to]
             /\ yielded' = Append(yielded, [entry |-> h.entry, read |-> FALSE, data |-> <<>>])
             /\ last' = [op |-> "next_entry", result |-> Ok("Some")]
        ELSE IF h.status = "eof"
        THEN /\ reader' = [reader EXCEPT !.eof = TRUE, !.from = h.to, !.to = h.to]
             /\ yielded' = yielded
             /\ last' = [op |-> "next_entry", result |-> Ok("None")]
        ELSE /\ reader' = reader
             /\ yielded' = yielded
             /\ last' = [op |-> "next_entry", result |-> ErrArchive(BadContainer)]
  /\ UNCHANGED <<mem, decVars, encVars, entries, file, attempted, call>>

\* PkgReader::read_data_to_vec on the current entry
ReadDataToVec ==
  /\ reader.open /\ ~reader.eof
  /\ yielded # <<>> /\ ~yielded[Len(yielded)].read
  /\ reader' = [reader EXCEPT !.from = reader.to]
  /\ yielded' = [yielded EXCEPT ![Len(yielded)] =
                   [@ EXCEPT !.read = TRUE,
                             !.data = Slice(reader.cpio_data, reader.from, reader.to)]]
  /\ last' = [op |-> "read_data_to_vec", result |-> Ok(<<>>)]
  /\ UNCHANGED <<mem, decVars, encVars, entries, file, attempted, call>>

\* Drop for PkgReader
DropReader ==
  /\ reader.open
  /\ reader' = NoReader
  /\ yielded' = <<>>
  /\ last' = [op |-> "drop", result |-> Ok(<<>>)]
  /\ call' = NoCtor
  /\ mem' = mem \o DropEvents
  /\ UNCHANGED <<decVars, encVars, entries, file, attempted>>

NextPkg ==
  \/ AddFile \/ AddFileWithPerm \/ AddDirectory \/ AddSymlink \/ Write
  \/ OpenCall \/ Open \/ NextEntry \/ ReadDataToVec \/ DropReader

SpecPkg == InitPkg /\ [][NextPkg]_vars

\* --- PkgWriter on its own: both ways of writing the package -----------------
\* nothing in PkgWriter depends on the build's overflow checks: a build with
\* them (the default of cargo test) stands for both
InitWriter == InitPkg /\ overflow_checks

NextWriter ==
  AddFile \/ AddFileWithPerm \/ AddDirectory \/ AddSymlink \/ Write \/ WriteToVec

SpecWriter == InitWriter /\ [][NextWriter]_vars

\* --- PkgReader on packages and payloads that PkgWriter did not write --------
InitReader ==
  /\ plan = NoPlan /\ data = <<>> /\ dec = Idle
  /\ overflow_checks \in BOOLEAN
  /\ c_data = <<>> /\ chunk_size = 0 /\ enc = EncIdle
  /\ entries = <<>> /\ attempted = <<>>
  /\ file \in Packages
  /\ reader = NoReader /\ yielded = <<>> /\ last = NoCall /\ call = NoCtor
  /\ mem = <<>>

NextReader ==
  \/ OpenCall \/ Open
  \/ (\E p \in PbzxInputs : FromPbzx(p))
  \/ (\E c \in CpioInputs : FromCpio(c))
  \/ NextEntry \/ ReadDataToVec \/ DropReader

SpecReader == InitReader /\ [][NextReader]_vars

\* ------------------------------------------------------------------------
\* What the claims speak about, read off the input bytes and the plan
\* ------------------------------------------------------------------------
Remaining == BLen(data) - dec.offset
AtChunkHeader == dec.pc = "loop" /\ Remaining >= 16
HeaderFlagBytes == Expand(Slice(data, dec.offset, dec.offset + 8))
HeaderLength == U64FromBytes(Expand(Slice(data, dec.offset + 8, dec.offset + 16)))
LengthFits == ~U64Gt(HeaderLength, U64FromInt(Remaining - 16))
Payload == Slice(data, dec.offset + 16, dec.offset + 16 + U64ToInt(HeaderLength))
XzFlagBytes == <<0, 0, 0, 0, 1, 0, 0, 0>>
StartsWithMagic == BLen(data) >= 4 /\ Expand(BTake(data, 4)) = <<112, 98, 122, 120>>

ChunkIsSound(k) == k.decl = "exact" /\ (k.flags = CHUNK_FLAG_XZ => k.body.valid)
ChunkOutput(k) == IF k.flags = CHUNK_FLAG_XZ THEN k.body.frag ELSE k.body.bytes
RECURSIVE PlanOutput(_)
PlanOutput(ks) == IF ks = <<>> THEN <<>> ELSE Cat(ChunkOutput(Head(ks)), PlanOutput(Tail(ks)))
WellFormedPlan ==
  /\ plan.magic_ok /\ plan.keep = 12
  /\ \A i \in 1..Len(plan.chunks) : ChunkIsSound(plan.chunks[i])

\* C3: every input shorter than 12 bytes, with or without the magic marker,
\* is rejected with the too-short error: never the bad-magic error, never success.
C3_TooShort ==
  (dec.pc = "done" /\ BLen(data) < 12) => dec.result = Err(TooShort)

C3_Witness ==
  /\ dec.pc = "done" /\ BLen(data) \in 4..11 /\ is_pbzx(data)
  /\ dec.result = Err(TooShort)

\* C4: every input of at least 12 bytes whose first 4 bytes are not the magic
\* marker is rejected with the bad-magic error before any chunk is looked at.
C4_BadMagic ==
  (dec.pc = "done" /\ BLen(data) >= 12 /\ ~StartsWithMagic)
    => (dec.result = Err(BadMagic) /\ dec.offset = 0)

C4_Witness ==
  /\ dec.pc = "done" /\ BLen(data) >= 28 /\ ~StartsWithMagic
  /\ dec.result = Err(BadMagic)

\* C5: whenever decompress reads a complete 16-byte chunk header whose declared
\* length exceeds the bytes remaining after the header, it returns the
\* truncated-chunk error (and so no output), also after earlier chunks decoded.
C5_Truncated ==
  [][(AtChunkHeader /\ ~LengthFits) => dec'.result = Err(TruncatedChunk)]_vars

C7_TruncatedHeaderIsError ==
  [][(dec.pc = "loop" /\ Remaining \in 1..15) => dec'.result.kind = "Err"]_vars

\* C8: for a well-formed stream the output is the concatenation, in stream
\* order, of each chunk's output: the payload of a raw chunk, the decompression
\* of a compressed chunk.
C8_Concatenation ==
  (dec.pc = "done" /\ WellFormedPlan) => dec.result = Ok(PlanOutput(plan.chunks))

C8_Witness ==
  /\ dec.pc = "done" /\ Len(plan.chunks) = 2
  /\ plan.chunks[1] = [flags |-> U64FromInt(0), body |-> RawBody, decl |-> "exact"]
  /\ plan.chunks[2] = [flags |-> CHUNK_FLAG_XZ, body |-> XzBody, decl |-> "exact"]
  /\ dec.result = Ok(Cat(Pack(<<65, 66>>), Rep(7, 7)))

\* C9: a chunk is treated as compressed iff its flag word is exactly the
\* compressed marker 0x01000000; with any other flag word, zero or not, the
\* payload is appended verbatim and no error is raised.
C9_PermissiveFlags ==
  [][(AtChunkHeader /\ LengthFits)
       => IF HeaderFlagBytes = XzFlagBytes
          THEN \/ dec'.result = Err(CodecError)
               \/ dec'.pc = "loop" /\ xz_decompress(Payload).ok
                    /\ dec'.output = Cat(dec.output, xz_decompress(Payload).val)
          ELSE dec'.pc = "loop" /\ dec'.output = Cat(dec.output, Payload)]_vars

C9_Witness ==
  /\ dec.pc = "done" /\ WellFormedPlan /\ Len(plan.chunks) = 2
  /\ plan.chunks[1].flags = FlagOther /\ plan.chunks[1].body = XzBody
  /\ plan.chunks[2].flags = CHUNK_FLAG_XZ
  /\ dec.result = Ok(Cat(XzBody.bytes, Rep(7, 7)))

\* chunk i of the plan is flagged compressed with a payload that is not a
\* valid XZ stream, and every chunk before it decodes
FirstUnsound(i) ==
  /\ i \in 1..Len(plan.chunks)
  /\ \A j \in 1..(i - 1) : ChunkIsSound(plan.chunks[j])
  /\ plan.chunks[i].decl = "exact" /\ plan.chunks[i].flags = CHUNK_FLAG_XZ
  /\ ~plan.chunks[i].body.valid

\* C10: when the payload of a chunk flagged as compressed cannot be
\* decompressed, decompress returns the codec error and no output at all, not
\* even the output of the chunks decoded before it.
C10_CodecError ==
  (dec.pc = "done" /\ plan.magic_ok /\ plan.keep = 12 /\ \E i \in 1..MaxChunks + 1 : FirstUnsound(i))
    => (dec.result.kind = "Err" /\ dec.result.msg = CodecError /\ dec.result.val = <<>>)

C10_Witness ==
  /\ dec.pc = "done" /\ plan.magic_ok /\ FirstUnsound(2)
  /\ dec.output # <<>> /\ dec.result = Err(CodecError)

\* C1: round trip.  For every buffer d, the empty one included, and every
\* chunk size c > 0, compress_with_chunk_size(d, c) succeeds and decompress of
\* its output succeeds and returns exactly d, whether the chunks were stored
\* raw or compressed.
C1_RoundTrip ==
  /\ (enc.pc = "done" /\ chunk_size > 0) => enc.result.kind = "Ok"
  /\ (dec.pc = "done" /\ enc.pc = "done") => dec.result = Ok(c_data)

\* a 7-byte run (stored compressed) followed by one other byte (stored raw)
C1_Witness ==
  /\ dec.pc = "done" /\ chunk_size = 7
  /\ c_data = Cat(Rep(7, 7), Rep(253, 1))
  /\ BLen(data) = 12 + (16 + 6) + (16 + 1)
  /\ dec.result = Ok(c_data)

\* what next_entry and read_data_to_vec returned agrees with the entries es
\* of a writer: as many entries, in the same order, each with the same path,
\* kind and permission bits, and the same data wherever the data was read
YieldedMatches(es) ==
  /\ Len(yielded) = Len(es)
  /\ \A i \in 1..Len(yielded) :
       /\ yielded[i].entry.pathname = es[i].entry.pathname
       /\ yielded[i].entry.filetype = es[i].entry.filetype
       /\ yielded[i].entry.perm = es[i].entry.perm
       /\ yielded[i].read => yielded[i].data = es[i].data

\* C2: pipeline round trip.  Whatever add_file / add_file_with_perm /
\* add_directory calls were made (none included), write succeeds, and open of
\* the written package followed by next_entry until None yields exactly the
\* entries held at the write, in insertion order and with the same path, kind,
\* data and permission bits.
C2_PipelineRoundTrip ==
  /\ last.op = "write" => last.result.kind = "Ok"
  /\ (last.op = "open" /\ file.finalized) => last.result.kind = "Ok"
  /\ (reader.open /\ reader.eof) => YieldedMatches(attempted)


\* ------------------------------------------------------------------------
\* The chunk records of a stream, read off its bytes from offset 12
\* ------------------------------------------------------------------------
RECURSIVE FramesAcc(_, _, _)
FramesAcc(buf, off, acc) ==
  IF off = BLen(buf) THEN [ok |-> TRUE, frames |-> acc]
  ELSE IF off + 16 > BLen(buf) THEN [ok |-> FALSE, frames |-> acc]
  ELSE
    LET fl == Expand(Slice(buf, off, off + 8))
        lb == Expand(Slice(buf, off + 8, off + 16))
        n == ((lb[5] * 256 + lb[6]) * 256 + lb[7]) * 256 + lb[8]
    IN IF lb[1] # 0 \/ lb[2] # 0 \/ lb[3] # 0 \/ lb[4] # 0 \/ lb[5] >= 64
       THEN [ok |-> FALSE, frames |-> acc]
       ELSE IF off + 16 + n > BLen(buf) THEN [ok |-> FALSE, frames |-> acc]
       ELSE FramesAcc(buf, off + 16 + n,
                      Append(acc, [flags |-> fl,
                                   payload |-> Slice(buf, off + 16, off + 16 + n)]))

FramesFrom(buf, off) == FramesAcc(buf, off, <<>>)

\* what a chunk record stands for: its payload, decompressed when flagged so
FrameOutput(f) ==
  IF f.flags = XzFlagBytes THEN xz_decompress(f.payload).val ELSE f.payload

\* the i-th slice (from 1) of the encoder's input for its chunk size
InputSlice(i) == Slice(c_data, (i - 1) * chunk_size, Min(i * chunk_size, BLen(c_data)))
NumSlices == (BLen(c_data) + chunk_size - 1) \div chunk_size
\* the encoder has returned its stream and nothing has been done with it yet
Encoded == enc.pc = "done" /\ enc.result.kind = "Ok" /\ dec.pc = "idle"

\* C11: with chunk size 0, compress_with_chunk_size fails with the
\* invalid-chunk-size error for every input, the empty one included, and
\* produces no output bytes.
C11_ZeroChunkSize ==
  (enc.pc = "done" /\ chunk_size = 0)
    => (enc.result = Err(InvalidChunkSize) /\ enc.output = <<>>)

C11_Witness ==
  /\ enc.pc = "done" /\ chunk_size = 0 /\ c_data = <<>>
  /\ enc.result = Err(InvalidChunkSize)

\* C12: for every input and chunk size c > 0 the first 12 bytes of the output
\* are the magic marker followed by c as a big-endian 64-bit integer, so
\* is_pbzx of the output is true, also for the empty input.
C12_Header ==
  (enc.pc = "done" /\ chunk_size > 0)
    => /\ enc.result.kind = "Ok"
       /\ BLen(enc.result.val) >= 12
       /\ Expand(BTake(enc.result.val, 12))
            = <<112, 98, 122, 120, 0, 0, 0, 0,
                chunk_size \div 16777216, (chunk_size \div 65536) % 256,
                (chunk_size \div 256) % 256, chunk_size % 256>>
       /\ is_pbzx(enc.result.val)

C12_Witness ==
  /\ Encoded /\ chunk_size = DEFAULT_CHUNK_SIZE /\ c_data = <<>>
  /\ Expand(enc.result.val) = <<112, 98, 122, 120, 0, 0, 0, 0, 0, 16, 0, 0>>

\* C13: for n input bytes and chunk size c > 0 the output holds exactly
\* ceil(n / c) chunks in input order; chunk i (from 0) stands for
\* data[i*c .. min((i+1)*c, n)], so every chunk but the last covers c bytes and
\* none covers zero bytes; for n = 0 the output is the 12-byte header alone.
C13_Splitting ==
  Encoded =>
    LET fr == FramesFrom(enc.result.val, 12)
    IN /\ fr.ok
       /\ Len(fr.frames) = NumSlices
       /\ \A i \in 1..Len(fr.frames) :
            /\ FrameOutput(fr.frames[i]) = InputSlice(i)
            /\ BLen(InputSlice(i)) > 0
            /\ i < Len(fr.frames) => BLen(InputSlice(i)) = chunk_size
       /\ BLen(c_data) = 0 => BLen(enc.result.val) = 12

\* 9 bytes at chunk size 4: slices of 4, 4 and 1 bytes
C13_Witness ==
  /\ Encoded /\ c_data = Rep(7, 9) /\ chunk_size = 4
  /\ Len(FramesFrom(enc.result.val, 12).frames) = 3
  /\ BLen(enc.result.val) = 12 + 3 * 16 + 9

\* C14: no chunk's payload is longer than the slice it stands for; a chunk
\* carries the compressed flag only when its payload is strictly shorter than
\* the slice, otherwise it holds the slice itself with flag 0; hence the
\* output is at most 12 + n + 16 * ceil(n / c) bytes long.
C14_NonExpansion ==
  Encoded =>
    LET fr == FramesFrom(enc.result.val, 12)
    IN /\ fr.ok
       /\ Len(fr.frames) = NumSlices
       /\ \A i \in 1..Len(fr.frames) :
            /\ BLen(fr.frames[i].payload) <= BLen(InputSlice(i))
            /\ fr.frames[i].flags = XzFlagBytes
                 => BLen(fr.frames[i].payload) < BLen(InputSlice(i))
            /\ fr.frames[i].flags # XzFlagBytes
                 => /\ fr.frames[i].flags = <<0, 0, 0, 0, 0, 0, 0, 0>>
                    /\ fr.frames[i].payload = InputSlice(i)
       /\ BLen(enc.result.val) <= 12 + BLen(c_data) + 16 * NumSlices

\* a 7-byte run stored compressed (6 bytes), then one byte stored raw
C14_Witness ==
  /\ Encoded /\ chunk_size = 7 /\ c_data = Cat(Rep(7, 7), Rep(253, 1))
  /\ FramesFrom(enc.result.val, 12).frames[1].flags = XzFlagBytes
  /\ BLen(FramesFrom(enc.result.val, 12).frames[1].payload) = 6
  /\ FramesFrom(enc.result.val, 12).frames[2].flags = <<0, 0, 0, 0, 0, 0, 0, 0>>

\* C15: is_pbzx(data) is true exactly when data has at least 4 bytes and its
\* first 4 bytes are the magic marker; the answer does not depend on any later
\* byte, and it is false for the empty input and for inputs of 1 to 3 bytes.
C15_Sniff ==
  last.op = "is_pbzx" =>
    /\ last.result.val = StartsWithMagic
    /\ last.result.val = (plan.magic_ok /\ plan.keep >= 4)
    /\ BLen(data) < 4 => last.result.val = FALSE

\* true on a stream whose first chunk is truncated
C15_Witness ==
  /\ last.op = "is_pbzx" /\ last.result.val = TRUE
  /\ plan.chunks # <<>> /\ plan.chunks[1].decl = "plus1"

\* ------------------------------------------------------------------------
\* What the PkgReader claims speak about, read off the package at the path
\* ------------------------------------------------------------------------
SlashPayload == <<47, 80, 97, 121, 108, 111, 97, 100>>

\* the name is "Payload", or its last 8 bytes are "/Payload"
NameMatches(n) ==
  \/ n = <<80, 97, 121, 108, 111, 97, 100>>
  \/ /\ Len(n) >= 8
     /\ \A k \in 1..8 : n[Len(n) - 8 + k] = SlashPayload[k]

Located(f) == {i \in 1..Len(f.entries) : NameMatches(f.entries[i].pathname)}
FirstLocated(f) == CHOOSE i \in Located(f) : \A j \in Located(f) : i <= j
LocatedBody(f) == f.entries[FirstLocated(f)].body

\* the headers of the inner container buf from position pos on, in order
RECURSIVE EntriesAcc(_, _, _)
EntriesAcc(buf, pos, acc) ==
  LET h == CpioReadHeader(buf, pos)
  IN IF h.status = "entry" THEN EntriesAcc(buf, h.to, Append(acc, h.entry)) ELSE acc

EntriesOf(buf) == EntriesAcc(buf, 0, <<>>)

\* C16: open takes the first outer entry, in iteration order, whose name is
\* exactly "Payload" or ends with "/Payload" and reads its bytes as the chunk
\* stream; a name such as "XPayload" does not match; when no entry matches,
\* open fails with the missing-payload error.
C16_PayloadSelection ==
  (last.op = "open" /\ file.finalized) =>
    IF Located(file) = {}
    THEN last.result = Err(MissingPayload) /\ ~reader.open
    ELSE LET r == decompress(LocatedBody(file), overflow_checks)
         IN IF r.kind # "Ok" THEN last.result = r /\ ~reader.open
            ELSE IF last.result.kind = "Ok" THEN reader.open /\ reader.cpio_data = r.val
            ELSE last.result.variant = "Archive" /\ ~reader.open

\* "XPayload" is passed over and "x/Payload" behind it is taken
C16_Witness ==
  /\ last.op = "open" /\ last.result.kind = "Ok"
  /\ Len(file.entries) = 2
  /\ file.entries[1].pathname = <<88, 80, 97, 121, 108, 111, 97, 100>>
  /\ file.entries[1].body = compress(CpioA).val
  /\ file.entries[2].pathname = <<120, 47, 80, 97, 121, 108, 111, 97, 100>>
  /\ reader.open /\ reader.cpio_data = CpioB

\* the steps a reader's phase may take
PhaseStep(from, to, via) ==
  \/ from = "Closed" /\ to = "LocatingPayload"
  \/ from = "LocatingPayload" /\ to \in {"Streaming", "Closed"}
  \/ from = "Streaming" /\ to = "Closed"
  \/ from = "Closed" /\ to = "Streaming" /\ via \in {"from_pbzx", "from_cpio"}

\* C17: a reader only moves Closed -> LocatingPayload -> Streaming -> Closed
\* (from_pbzx and from_cpio enter Streaming without locating); open returns
\* either a reader in Streaming, whose buffer is the complete decoding of the
\* located payload, or an error and no reader; no entry is yielded outside
\* Streaming.
C17_Lifecycle ==
  /\ [][call'.phase # call.phase => PhaseStep(call.phase, call'.phase, call'.via)]_vars
  /\ [](reader.open <=> call.phase = "Streaming")
  /\ []((call.phase = "Streaming" /\ call.via = "open") =>
          /\ file.finalized /\ Located(file) # {}
          /\ decompress(LocatedBody(file), overflow_checks).kind = "Ok"
          /\ reader.cpio_data = decompress(LocatedBody(file), overflow_checks).val
          /\ reader.cpio_data # <<>> /\ reader.cpio_data[1][1] \in {0, 1, 2, 3})
  /\ []((last.op = "open" /\ last.result.kind # "Ok") => ~reader.open)
  /\ [](yielded # <<>> => call.phase = "Streaming")

\* streaming after open, with both entries of the payload yielded
C17_Witness ==
  /\ call.phase = "Streaming" /\ call.via = "open"
  /\ reader.eof /\ Len(yielded) = 2

\* C18: from_pbzx(p) behaves as from_cpio(decode(p)): the error of decode when
\* decode fails, the same reader otherwise; open behaves as from_pbzx on the
\* bytes of the located Payload entry; from_cpio takes its bytes as they are;
\* and whatever the entry point, the entries yielded are those of the
\* reader's buffer, in order.
C18_EntryPoints ==
  /\ (last.op = "from_pbzx" /\ call.via = "from_pbzx") =>
       LET d == decompress(call.arg, overflow_checks)
       IN IF d.kind # "Ok" THEN last.result = d /\ ~reader.open
          ELSE IF from_cpio(d.val).kind # "Ok"
          THEN last.result = from_cpio(d.val) /\ ~reader.open
          ELSE last.result.kind = "Ok" /\ reader = from_cpio(d.val).val
  /\ (last.op = "from_cpio" /\ call.via = "from_cpio") =>
       IF call.arg # <<>> /\ call.arg[1][1] \in {0, 1, 2, 3}
       THEN /\ last.result.kind = "Ok"
            /\ reader.open /\ reader.cpio_data = call.arg /\ reader.pos = 0
       ELSE last.result = ErrArchive(BadContainer) /\ ~reader.open
  /\ (last.op = "open" /\ file.finalized /\ Located(file) # {}) =>
       LET r == from_pbzx(LocatedBody(file), overflow_checks)
       IN IF r.kind = "Ok" THEN last.result.kind = "Ok" /\ reader = r.val
          ELSE last.result = r /\ ~reader.open
  /\ reader.open =>
       LET es == EntriesOf(reader.cpio_data)
       IN /\ Len(yielded) <= Len(es)
          /\ \A i \in 1..Len(yielded) : yielded[i].entry = es[i]
          /\ reader.eof => Len(yielded) = Len(es)

\* from_pbzx on the encoding of a two-entry container, read to the end
C18_Witness ==
  /\ call.via = "from_pbzx" /\ call.arg = compress(CpioB).val
  /\ reader.open /\ reader.eof /\ Len(yielded) = 2

\* C19: when write or write_to_vec succeeds, the outer container holds exactly
\* one entry, named "Payload", whose body is the encoding at the 1 MiB default
\* chunk size of the serialized inner container, and it is finalized; this
\* holds for any number of accumulated entries, 0 included.
C19_SinglePayload ==
  (last.op \in {"write", "write_to_vec"} /\ last.result.kind = "Ok") =>
    LET out == IF last.op = "write" THEN file ELSE last.result.val
        cpio == build_cpio(attempted)
    IN /\ out.finalized
       /\ Len(out.entries) = 1
       /\ out.entries[1].pathname = <<80, 97, 121, 108, 111, 97, 100>>
       /\ cpio.kind = "Ok"
       /\ out.entries[1].body = compress_with_chunk_size(cpio.val, 1048576).val
       /\ Expand(Slice(out.entries[1].body, 4, 12)) = <<0, 0, 0, 0, 0, 16, 0, 0>>
       /\ Len(FramesFrom(out.entries[1].body, 12).frames)
            = (BLen(cpio.val) + 1048575) \div 1048576

\* write_to_vec of two entries whose inner container takes two chunks
C19_Witness ==
  /\ last.op = "write_to_vec" /\ last.result.kind = "Ok"
  /\ Len(attempted) = 2
  /\ Len(FramesFrom(last.result.val.entries[1].body, 12).frames) = 2

\* the kind of an error as a caller can match on it without reading the
\* message text: the variant of Error, a container failure being the one
\* that libarchive reports
ErrorKind(r) == IF r.variant = "Archive" THEN "ContainerError" ELSE r.variant

\* C20: every failure of open / from_pbzx / from_cpio (and of the decode they
\* run) reaches the caller as an error value whose kind is one of TooShort,
\* BadMagic, TruncatedChunk, CodecError, InvalidChunkSize, MissingPayload and
\* ContainerError, so that the kind alone tells the causes apart.
C20_TypedErrors ==
  (last.op \in {"open", "from_pbzx", "from_cpio"} /\ last.result.kind # "Ok") =>
    /\ last.result.kind = "Err"
    /\ ErrorKind(last.result) \in {"TooShort", "BadMagic", "TruncatedChunk", "CodecError",
                                   "InvalidChunkSize", "MissingPayload", "ContainerError"}

\* ------------------------------------------------------------------------
\* PkgWriter: what its calls leave behind
\* ------------------------------------------------------------------------
IsSymlinkAt(es, i) == es[i].entry.filetype = "SymbolicLink"

\* C21: add_symlink(path, target), then write, then open: the package holds,
\* at the position the symlink was added at, an entry of kind symlink with
\* that path and that target, and next_entry yields the package's entries in
\* their order.
C21_SymlinkPreserved ==
  /\ [][(/\ last.op = "write" /\ last.result.kind = "Ok"
         /\ call.phase = "LocatingPayload" /\ call'.phase # "LocatingPayload")
        => /\ reader'.open
           /\ LET es == EntriesOf(reader'.cpio_data)
              IN /\ Len(es) = Len(attempted)
                 /\ \A i \in 1..Len(attempted) :
                      IsSymlinkAt(attempted, i) =>
                        /\ es[i].filetype = "SymbolicLink"
                        /\ es[i].pathname = attempted[i].entry.pathname
                        /\ es[i].symlink = attempted[i].entry.symlink]_vars
  /\ [][(reader.open /\ Len(yielded') = Len(yielded) + 1)
        => LET es == EntriesOf(reader.cpio_data)
           IN /\ Len(yielded') <= Len(es)
              /\ yielded'[Len(yielded')].entry = es[Len(yielded')]
              /\ SubSeq(yielded', 1, Len(yielded)) = yielded]_vars

\* a file, then a symlink to "tool", written, opened and read to the end
C21_Witness ==
  /\ reader.open /\ reader.eof /\ call.via = "open"
  /\ Len(attempted) = 2 /\ Len(yielded) = 2
  /\ attempted[1].entry.filetype = "RegularFile"
  /\ attempted[2].entry.symlink = <<116, 111, 111, 108>>
  /\ yielded[2].entry.filetype = "SymbolicLink"
  /\ yielded[2].entry.pathname = attempted[2].entry.pathname
  /\ yielded[2].entry.symlink = <<116, 111, 111, 108>>

WriteOps == {"write", "write_to_vec"}
AddOps == {"add_file", "add_file_with_perm", "add_directory", "add_symlink"}

\* the outer container that the last write / write_to_vec produced
Written == IF last.op = "write" THEN file ELSE last.result.val

\* C22 as stated: an entry is serialized by one write / write_to_vec call
\* only, so no successful call is made while entries that an earlier call
\* serialized are held.
C22_ConsumedOnce ==
  [][(last'.op \in WriteOps /\ last'.result.kind = "Ok") => attempted = <<>>]_vars

\* C22 as the code has it: every successful write / write_to_vec call
\* serializes each held entry exactly once, in insertion order, and leaves the
\* list as it was, so that a later call serializes the same entries again.
C22_OncePerCall ==
  (last.op \in WriteOps /\ last.result.kind = "Ok") =>
    /\ entries = attempted
    /\ LET d == decompress(Written.entries[1].body, overflow_checks)
       IN /\ d.kind = "Ok"
          /\ LET es == EntriesOf(d.val)
             IN /\ Len(es) = Len(entries)
                /\ \A i \in 1..Len(es) :
                     /\ es[i].pathname = entries[i].entry.pathname
                     /\ es[i].filetype = entries[i].entry.filetype

\* write_to_vec after write: the same two entries serialized a second time
C22_Witness ==
  /\ last.op = "write_to_vec" /\ last.result.kind = "Ok"
  /\ Len(entries) = 2 /\ file.finalized
  /\ file.entries[1].body = last.result.val.entries[1].body

\* C23: the writer has no limit of its own: write / write_to_vec never fails
\* because a fixed capacity was exceeded.
C23_NoFixedCapacity ==
  last.op \in WriteOps => last.result # ErrArchive(BufferExhausted)

\* C25: write and write_to_vec serialize, then encode, then write the outer
\* container; when serializing fails the call returns that error, the
\* destination file is left as it was and write_to_vec returns no bytes;
\* otherwise the outer container holds the encoding of the serialized entries.
C25_StepOrder ==
  [][last'.op \in WriteOps =>
       LET c == build_cpio(entries)
       IN IF c.kind # "Ok"
          THEN last'.result = c /\ last'.result.val = <<>> /\ file' = file
          ELSE /\ last'.result.kind = "Ok"
               /\ (last'.op = "write" => file'.entries[1].body = compress(c.val).val)
               /\ (last'.op = "write_to_vec" =>
                     /\ file' = file
                     /\ last'.result.val.entries[1].body = compress(c.val).val)]_vars

\* a package was written, then a write failed: the package is still there
C25_Witness ==
  /\ last.op = "write" /\ last.result = ErrArchive(BufferExhausted)
  /\ file.finalized /\ Len(attempted) = 2

\* C29: a successful add_* call appends one entry and leaves the earlier ones
\* as they were (a failed one leaves the list as it was); the new entry is a
\* file with its bytes, their length as size and permission 0o644 (or the given
\* one), a directory without data, size 0 and permission 0o755, or a symlink
\* without data, size 0, permission 0o777 and its target.
C29_AddAppends ==
  [][last'.op \in AddOps =>
       IF last'.result.kind # "Ok" THEN entries' = entries
       ELSE /\ Len(entries') = Len(entries) + 1
            /\ SubSeq(entries', 1, Len(entries)) = entries
            /\ LET e == entries'[Len(entries')]
               IN /\ e.entry.size = BLen(e.data)
                  /\ last'.op = "add_file" =>
                       /\ e.entry.filetype = "RegularFile" /\ e.entry.perm = 420
                       /\ e.data \in FileData /\ e.entry.symlink = <<>>
                  /\ last'.op = "add_file_with_perm" =>
                       /\ e.entry.filetype = "RegularFile" /\ e.entry.perm \in PermSet
                       /\ e.data \in PermFileData /\ e.entry.symlink = <<>>
                  /\ last'.op = "add_directory" =>
                       /\ e.entry.filetype = "Directory" /\ e.entry.perm = 493
                       /\ e.data = <<>> /\ e.entry.size = 0 /\ e.entry.symlink = <<>>
                  /\ last'.op = "add_symlink" =>
                       /\ e.entry.filetype = "SymbolicLink" /\ e.entry.perm = 511
                       /\ e.data = <<>> /\ e.entry.size = 0
                       /\ e.entry.symlink \in Targets]_vars

\* a directory, then a symlink
C29_Witness ==
  /\ last.op = "add_symlink" /\ last.result.kind = "Ok"
  /\ Len(entries) = 2
  /\ entries[1].entry.filetype = "Directory" /\ entries[1].entry.perm = 493
  /\ entries[2].entry.filetype = "SymbolicLink" /\ entries[2].entry.perm = 511

\* ------------------------------------------------------------------------
\* PkgReader: the decoded buffer and the inner archive that reads from it
\* ------------------------------------------------------------------------
\* after the first k events: is the buffer allocated, is the inner archive
\* open on it
BufLiveAfter(k) ==
  /\ \E i \in 1..k : mem[i] = "buf_alloc"
  /\ \A i \in 1..k : mem[i] \notin {"buf_free", "buf_realloc"}
ViewOpenAfter(k) ==
  /\ \E i \in 1..k : mem[i] = "view_open"
  /\ \A i \in 1..k : mem[i] # "view_free"

\* C24: at every point of a PkgReader's construction, use and drop, while the
\* inner archive is open on the decoded buffer (and so while an entry got from
\* it is held) the buffer is allocated, is where it was and holds what it held;
\* the inner archive is released before the buffer, on drop and when
\* from_cpio_data fails.
C24_BufferLifetime ==
  /\ [](\A k \in 0..Len(mem) : ViewOpenAfter(k) => BufLiveAfter(k))
  /\ [](\A i, j \in 1..Len(mem) :
          (mem[i] = "view_free" /\ mem[j] = "buf_free") => i < j)
  /\ []((reader.open \/ yielded # <<>>)
          => (ViewOpenAfter(Len(mem)) /\ BufLiveAfter(Len(mem))))
  /\ [][(reader.open /\ reader'.open) => reader'.cpio_data = reader.cpio_data]_vars

\* a reader that yielded an entry was dropped: inner archive first, then buffer
C24_Witness ==
  /\ last.op = "drop" /\ ~reader.open
  /\ mem = <<"buf_alloc", "view_new", "view_open", "buf_move", "view_free", "buf_free">>

\* ------------------------------------------------------------------------
\* The chunk stream: framing, bounds, progress, the header's chunk-size field
\* ------------------------------------------------------------------------
\* C26: every chunk that compress_with_chunk_size emits is a 16-byte header
\* whose length field is the number of payload bytes put right after it, behind
\* what was emitted before and with nothing else added; decompress of the
\* returned stream ends on its last byte, with no bytes left over.
C26_Framing ==
  /\ [][(enc.pc = "loop" /\ enc'.pc = "loop") =>
          LET n == BLen(enc.output)
              m == BLen(enc'.output)
          IN /\ m > n + 16
             /\ BTake(enc'.output, n) = enc.output
             /\ Slice(enc'.output, n + 8, n + 16)
                  = Pack(U64ToBytes(U64FromInt(m - n - 16)))]_vars
  /\ []((enc.pc = "done" /\ dec.pc = "done")
          => (dec.result.kind = "Ok" /\ dec.offset = BLen(data)))

\* 18 bytes at chunk size 8: three chunks, read back to the last byte
C26_Witness ==
  /\ enc.pc = "done" /\ dec.pc = "done"
  /\ c_data = Cat(Rep(7, 9), Rep(253, 9)) /\ chunk_size = 8
  /\ Len(FramesFrom(data, 12).frames) = 3
  /\ dec.offset = BLen(data) /\ dec.result = Ok(c_data)

\* C27: for every declared chunk length, the largest 64-bit values included,
\* decompress neither aborts nor leaves the input: its offset stays inside the
\* input and a call never ends in a panic.
C27_NoWrapNoAbort ==
  /\ dec.result.kind # "Panic"
  /\ dec.pc # "idle" => dec.offset <= BLen(data)

\* C28: at every loop head 12 <= offset <= len(input); an iteration either
\* returns or moves offset forward by at least 16 bytes, so the bytes left
\* after offset bound the number of iterations and the call ends.
C28_Progress ==
  /\ [](dec.pc = "loop" => (12 <= dec.offset /\ dec.offset <= BLen(data)))
  /\ [][dec.pc = "loop" =>
          \/ dec'.pc = "done"
          \/ /\ dec'.pc = "loop"
             /\ dec'.offset >= dec.offset + 16
             /\ BLen(data) - dec'.offset <= BLen(data) - dec.offset - 16]_vars
  /\ [][dec.pc = "done" => dec'.pc = "done"]_vars

\* two chunks were gone through, 16 + 2 and 16 + 6 bytes, then the call returned
C28_Witness ==
  /\ dec.pc = "done" /\ dec.result.kind = "Ok"
  /\ Len(plan.chunks) = 2 /\ plan.trail = 1
  /\ plan.chunks[1].body = RawBody /\ plan.chunks[2].body = XzBody
  /\ dec.offset = 12 + 18 + 22 /\ BLen(data) = dec.offset + 1

\* C30: decompress of a stream gives what it gives for the stream with any
\* other value in bytes 4..12: every value of the field, 0 included, is
\* accepted, and a chunk that decodes to more bytes than the field says is too.
C30_FieldIgnored ==
  dec.pc = "done" =>
    /\ dec.result = decompress(PlanBytes(plan), overflow_checks)
    /\ \A f \in FieldValues :
         dec.result = decompress(WithField(data, f), overflow_checks)

\* field 0, one chunk that decodes to 7 bytes
C30_Witness ==
  /\ dec.pc = "done"
  /\ Expand(Slice(data, 4, 12)) = <<0, 0, 0, 0, 0, 0, 0, 0>>
  /\ Len(plan.chunks) = 1 /\ plan.chunks[1].body = XzBody
  /\ dec.result = Ok(Rep(7, 7))

====
